---- MODULE Spec2Model ----
(***************************************************************************)
(* The Mixnet Bridge of rust-libp2p-nym (src/src/mixnet.rs):               *)
(* initialize_mixnet connects a websocket to a Nym gateway, discovers the  *)
(* bridge's own address (get_self_address) and spawns the relay loop that  *)
(* races check_inbound against check_outbound in a select!.                *)
(*                                                                         *)
(* The gateway, the socket and the caller are the environment.  Every      *)
(* frame the gateway emits carries a ghost number `id` (its arrival order  *)
(* on the socket) and every outbound message a ghost number `n` (its       *)
(* enqueue order); the code never reads either.  The model keeps no        *)
(* histories: what a claim needs of the past is a ghost counter.           *)
(***************************************************************************)
EXTENDS Naturals, Integers, Sequences, FiniteSets, TLC

\* ------------------------------------------------------------------ bounds
MaxFrames == 2      \* frames the gateway emits of its own accord
MaxOut == 2         \* outbound messages the caller enqueues
MaxLen == 1         \* longest application payload, in bytes

\* -------------------------------------------------------------- data model
Byte == {0}
Addrs == {"addrA", "addrB"}
NoAddr == "none"
ErrTexts == {"gw-error"}
ConnId == 7
TransportTag == 2

RECURSIVE SeqsUpTo(_, _)
SeqsUpTo(S, n) ==
    IF n = 0 THEN {<<>>}
    ELSE LET shorter == SeqsUpTo(S, n - 1)
         IN  shorter \cup {Append(s, x) : s \in {t \in shorter : Len(t) = n - 1}, x \in S}

Payloads == SeqsUpTo(Byte, MaxLen)

\* Message::TransportMessage(TransportMessage { id, message })
Messages == [id : {ConnId}, message : Payloads]

\* Result<_, Error>: kind "Ok" or the Error variant, detail its text.
Ok == [kind |-> "Ok", detail |-> ""]
Err(kind, detail) == [kind |-> kind, detail |-> detail]
NoResult == [kind |-> "none", detail |-> ""]

\* Message::to_bytes: a type tag, the connection id, then the payload.
to_bytes(m) == <<TransportTag, m.id>> \o m.message

\* parse_message_data: the inverse of to_bytes; fails on anything else.
parse_message_data(bytes) ==
    IF Len(bytes) >= 2 /\ bytes[1] = TransportTag /\ bytes[2] = ConnId
    THEN [res |-> Ok, msg |-> [id |-> bytes[2], message |-> SubSeq(bytes, 3, Len(bytes))]]
    ELSE [res |-> Err("InvalidMessageBytes", ""), msg |-> [id |-> ConnId, message |-> <<>>]]

\* Byte strings the gateway puts in a Received response of its own: the
\* encoded messages of the longest payloads, and one that does not decode
\* (an echoed Send carries whatever bytes were sent).
GarbageBytes == {<<0, ConnId>>}
WireBytes == {to_bytes(m) : m \in {x \in Messages : Len(x.message) = MaxLen}} \cup GarbageBytes

\* ServerResponse (nym_websocket::responses); "Other" stands for the variants
\* the bridge has no arm for.
Resp(tag, addr, message, text) ==
    [tag |-> tag, addr |-> addr, message |-> message, text |-> text]
NoResp == Resp("none", NoAddr, <<>>, "")
Responses ==
    {Resp("SelfAddress", "addrB", <<>>, "")}
    \cup {Resp("Received", NoAddr, b, "") : b \in WireBytes}
    \cup {Resp("Error", NoAddr, <<>>, t) : t \in ErrTexts}
    \cup {Resp("Other", NoAddr, <<>>, "")}

\* What ws_stream.next() can yield as Some(..): Ok(Message) of a frame kind,
\* whose bytes deserialize to a ServerResponse (wf) or not, or Err(e).
Item(read, kind, wf, resp) == [read |-> read, kind |-> kind, wf |-> wf, resp |-> resp]
GatewayItems ==
    {Item("Ok", "Binary", TRUE, r) : r \in Responses}
    \cup {Item("Ok", "Text", TRUE, Resp("Received", NoAddr, to_bytes(m), "")) :
            m \in {x \in Messages : x.message = <<>>}}
    \cup {Item("Ok", "Binary", FALSE, NoResp)}
    \cup {Item("Ok", "Ping", TRUE, NoResp)}
    \cup {Item("Err", "none", FALSE, NoResp)}

\* A socket item with its ghost fields: id, its arrival number, and echo, the
\* enqueue number of the Send it answers (0: none).
WithId(item, id, echo) ==
    [id |-> id, echo |-> echo, read |-> item.read, kind |-> item.kind, wf |-> item.wf,
     resp |-> item.resp]

\* ClientRequest (nym_websocket::requests); n is the ghost enqueue number.
SelfAddressRequest == [tag |-> "SelfAddress", recipient |-> NoAddr, message |-> <<>>, n |-> 0]
SendRequest(recipient, message, n) ==
    [tag |-> "Send", recipient |-> recipient, message |-> message, n |-> n]

\* ------------------------------------------------------------------- state
VARIABLES
    pc,         \* initialize_mixnet: "connect", "hs_send", "hs_read", "done", "failed"
    initResult, \* what initialize_mixnet returned (NoResult while it runs)
    recipient,  \* the self address it returned
    loop,       \* the spawned task: "none", "select" (in the loop), "exited"
    t2,         \* check_outbound of this iteration: "idle" or "writing"
    res,        \* the result the last finished select! arm logged
    rx,         \* items the socket's read half will yield, oldest first
    rxEnded,    \* the gateway closed the stream: None once rx is drained
    emitted,    \* frames the gateway has put on the socket so far
    unasked,    \* those of them it sent of its own accord
    sent,       \* requests written to the socket the gateway has yet to serve
    lastSent,   \* ghost: the enqueue number of the last Send written to the socket
    sinkBuf,    \* requests the sink has accepted and not yet flushed
    outbound,   \* the outbound channel's queue
    enq,        \* outbound messages enqueued so far
    txAlive,    \* the caller still holds outbound_tx
    inbound,    \* the inbound channel's queue
    lastIn,     \* ghost: the frame id of the last item enqueued to it
    rxAlive,    \* the caller still holds inbound_rx
    hsCount,    \* ghost: items get_self_address consumed (the ids 1..hsCount)
    lastBad     \* ghost: id of the last frame check_inbound dropped on a decode error

vars == <<pc, initResult, recipient, loop, t2, res, rx, rxEnded, emitted, unasked,
          sent, lastSent, sinkBuf, outbound, enq, txAlive, inbound, lastIn, rxAlive,
          hsCount, lastBad>>

initVars == <<pc, initResult, recipient, hsCount>>
loopVars == <<loop, t2, res, lastBad>>
sockVars == <<rx, rxEnded, emitted, unasked, sent, lastSent, sinkBuf>>
outVars == <<outbound, enq, txAlive>>
inVars == <<inbound, lastIn, rxAlive>>

Init ==
    /\ pc = "connect"
    /\ initResult = NoResult
    /\ recipient = NoAddr
    /\ loop = "none"
    /\ t2 = "idle"
    /\ res = NoResult
    /\ rx = <<>>
    /\ rxEnded = FALSE
    /\ emitted = 0
    /\ unasked = 0
    /\ sent = <<>>
    /\ sinkBuf = <<>>
    /\ lastSent = 0
    /\ outbound = <<>>
    /\ enq = 0
    /\ txAlive = TRUE
    /\ inbound = <<>>
    /\ lastIn = 0
    /\ rxAlive = TRUE
    /\ hsCount = 0
    /\ lastBad = 0

\* --------------------------------------------------------- Protocol codec
\* A codec that takes Binary frames only.
parse_nym_message_binary_only(msg) ==
    IF msg.kind = "Binary" /\ msg.wf
    THEN [res |-> Ok, resp |-> msg.resp]
    ELSE [res |-> Err("UnknownNymMessage", ""), resp |-> NoResp]

\* parse_nym_message: Text and Binary frames are deserialized, any other
\* frame kind is rejected.
parse_nym_message(msg) ==
    IF msg.kind \in {"Text", "Binary"}
    THEN IF msg.wf
         THEN [res |-> Ok, resp |-> msg.resp]
         ELSE [res |-> Err("NymMessageError", "deserialize"), resp |-> NoResp]
    ELSE [res |-> Err("UnknownNymMessage", ""), resp |-> NoResp]

\* ---------------------------------------------------------------- channels
\* A channel that puts the newest item first.
ChannelSendFront(queue, x) == <<x>> \o queue

\* A channel that hands out its newest item.
ChannelRecvNewest(queue) ==
    [item |-> queue[Len(queue)], rest |-> SubSeq(queue, 1, Len(queue) - 1)]

\* UnboundedSender::send on a live channel: the item joins the queue's tail.
ChannelSend(queue, x) == Append(queue, x)

\* UnboundedReceiver::recv with a message waiting: the queue's head.
ChannelRecv(queue) == [item |-> Head(queue), rest |-> Tail(queue)]

\* --------------------------------------------------------------- handshake
\* A handshake that takes the first response of another variant for a
\* failure instead of skipping it.
HandshakeStepFirstOnly(raw) ==
    IF raw.read = "Ok" /\ raw.kind \in {"Text", "Binary"} /\ raw.wf
       /\ raw.resp.tag = "SelfAddress"
    THEN [next |-> "return", res |-> Ok, addr |-> raw.resp.addr]
    ELSE [next |-> "fail", res |-> Err("UnexpectedNymMessage", ""), addr |-> NoAddr]

\* A handshake that skips an Error response like any other variant.
HandshakeStepSkipsError(raw) ==
    IF raw.read = "Err"
    THEN [next |-> "fail", res |-> Err("WebsocketStreamError", "read"), addr |-> NoAddr]
    ELSE LET p == parse_nym_message(raw)
         IN  IF p.res # Ok
             THEN [next |-> "fail", res |-> p.res, addr |-> NoAddr]
             ELSE IF p.resp.tag = "SelfAddress"
                  THEN [next |-> "return", res |-> Ok, addr |-> p.resp.addr]
                  ELSE [next |-> "continue", res |-> Ok, addr |-> NoAddr]

\* A handshake that skips whatever is not a SelfAddress response, frames it
\* cannot read or decode included.
HandshakeStepSkipsBadFrames(raw) ==
    IF raw.read = "Ok" /\ parse_nym_message(raw).res = Ok
    THEN LET p == parse_nym_message(raw)
         IN  CASE p.resp.tag = "SelfAddress" ->
                     [next |-> "return", res |-> Ok, addr |-> p.resp.addr]
                [] p.resp.tag = "Error" ->
                     [next |-> "fail", res |-> Err("NymMessageError", p.resp.text),
                      addr |-> NoAddr]
                [] OTHER ->
                     [next |-> "continue", res |-> Ok, addr |-> NoAddr]
    ELSE [next |-> "continue", res |-> Ok, addr |-> NoAddr]

\* One turn of get_self_address's while-let loop on Some(raw_message).
HandshakeStep(raw) ==
    IF raw.read = "Err"
    THEN [next |-> "fail", res |-> Err("WebsocketStreamError", "read"), addr |-> NoAddr]
    ELSE LET p == parse_nym_message(raw)
         IN  IF p.res # Ok
             THEN [next |-> "fail", res |-> p.res, addr |-> NoAddr]
             ELSE CASE p.resp.tag = "SelfAddress" ->
                         [next |-> "return", res |-> Ok, addr |-> p.resp.addr]
                    [] p.resp.tag = "Error" ->
                         [next |-> "fail", res |-> Err("NymMessageError", p.resp.text),
                          addr |-> NoAddr]
                    [] OTHER ->
                         [next |-> "continue", res |-> Ok, addr |-> NoAddr]

\* A handshake that keeps waiting on a stream that has ended.
HandshakeEndWaits == [next |-> "continue", res |-> Ok, addr |-> NoAddr]

\* get_self_address when ws_stream.next() yields None: the while-let ends
\* and the function returns Err(RecvError).
HandshakeEnd == [next |-> "fail", res |-> Err("RecvError", ""), addr |-> NoAddr]

\* A relay task spawned as soon as the socket is connected.
LoopSpawnedAtConnect == "select"

\* The relay task while get_self_address has not returned: tokio::task::spawn
\* comes after it, so there is none.
LoopBeforeHandshake == "none"

\* unbounded_channel::<InboundMessage>(): created empty, after the handshake.
NewInboundChannel == <<>>

\* A loop that gives up the socket after a failed write.
LoopBreakOnWriteError(r) ==
    IF r = Err("WebsocketStreamError", "write") THEN "exited" ELSE "select"

\* A loop that breaks as soon as an arm returns an error.
LoopBreakOnError(r) == IF r = Ok THEN "select" ELSE "exited"

\* The loop statement of the spawned task: whatever the select! arm
\* returned, control goes back to the top of the loop.
LoopNext(r) == "select"

\* connect_async(uri)
ConnectOk ==
    /\ pc = "connect"
    /\ pc' = "hs_send"
    /\ loop' = LoopBeforeHandshake
    /\ UNCHANGED <<initResult, recipient, hsCount, t2, res, lastBad, sockVars,
                   outVars, inVars>>

ConnectFail ==
    /\ pc = "connect"
    /\ pc' = "failed"
    /\ initResult' = Err("WebsocketStreamError", "connect")
    /\ UNCHANGED <<recipient, hsCount, loopVars, sockVars, outVars, inVars>>

\* get_self_address: ws_stream.send(SelfAddress request)
HsSendOk ==
    /\ pc = "hs_send"
    /\ pc' = "hs_read"
    /\ sent' = Append(sent, SelfAddressRequest)
    /\ UNCHANGED <<initResult, recipient, hsCount, loopVars, rx, rxEnded, emitted, unasked,
                   lastSent, sinkBuf, outVars, inVars>>

HsSendFail ==
    /\ pc = "hs_send"
    /\ pc' = "failed"
    /\ initResult' = Err("WebsocketStreamError", "write")
    /\ UNCHANGED <<recipient, hsCount, loopVars, sockVars, outVars, inVars>>

\* get_self_address: one ws_stream.next().await and what follows it; on
\* success the rest of initialize_mixnet (channels, split, spawn, return).
HsRead ==
    /\ pc = "hs_read"
    /\ \/ /\ rx # <<>>
          /\ LET raw == Head(rx)
                 step == HandshakeStep(raw)
             IN  /\ rx' = Tail(rx)
                 /\ hsCount' = hsCount + 1
                 /\ CASE step.next = "return" ->
                           /\ pc' = "done"
                           /\ initResult' = Ok
                           /\ recipient' = step.addr
                           /\ inbound' = NewInboundChannel
                           /\ loop' = "select"
                      [] step.next = "fail" ->
                           /\ pc' = "failed"
                           /\ initResult' = step.res
                           /\ UNCHANGED <<recipient, inbound, loop>>
                      [] OTHER ->
                           /\ UNCHANGED <<pc, initResult, recipient, inbound, loop>>
       \/ /\ rx = <<>>
          /\ rxEnded
          /\ pc' = IF HandshakeEnd.next = "fail" THEN "failed" ELSE pc
          /\ initResult' = IF HandshakeEnd.next = "fail" THEN HandshakeEnd.res ELSE initResult
          /\ UNCHANGED <<recipient, hsCount, rx, inbound, loop>>
    /\ UNCHANGED <<t2, res, lastBad, rxEnded, emitted, unasked, sent, lastSent,
                   sinkBuf, outVars, lastIn, rxAlive>>

\* -------------------------------------------------------------- relay loop
NoMsg == [id |-> ConnId, message |-> <<>>]

\* The Error variants of a frame that does not decode: envelope, frame kind,
\* application payload.
DecodeErrors == {"NymMessageError", "UnknownNymMessage", "InvalidMessageBytes"}

\* A handle_inbound that forwards the bytes of whatever response it parsed,
\* of any variant and without decoding them.
handle_inbound_forward_all(msg, alive) ==
    LET p == parse_nym_message(msg)
    IN  IF p.res # Ok
        THEN [res |-> p.res, enqueue |-> FALSE, data |-> NoMsg]
        ELSE [res |-> Ok, enqueue |-> alive,
              data |-> [id |-> ConnId, message |-> p.resp.message]]

\* A handle_inbound whose send succeeds whether or not a receiver is left.
handle_inbound_send_always(msg, alive) ==
    LET p == parse_nym_message(msg)
    IN  IF p.res # Ok
        THEN [res |-> p.res, enqueue |-> FALSE, data |-> NoMsg]
        ELSE CASE p.resp.tag = "Received" ->
                    LET d == parse_message_data(p.resp.message)
                    IN  IF d.res # Ok
                        THEN [res |-> d.res, enqueue |-> FALSE, data |-> NoMsg]
                        ELSE [res |-> Ok, enqueue |-> TRUE, data |-> d.msg]
               [] p.resp.tag = "Error" ->
                    [res |-> Err("NymMessageError", p.resp.text), enqueue |-> FALSE,
                     data |-> NoMsg]
               [] OTHER ->
                    [res |-> Err("UnexpectedNymMessage", ""), enqueue |-> FALSE,
                     data |-> NoMsg]

\* handle_inbound(msg, inbound_tx); alive: an inbound receiver still exists.
handle_inbound(msg, alive) ==
    LET p == parse_nym_message(msg)
    IN  IF p.res # Ok
        THEN [res |-> p.res, enqueue |-> FALSE, data |-> NoMsg]
        ELSE CASE p.resp.tag = "Received" ->
                    LET d == parse_message_data(p.resp.message)
                    IN  IF d.res # Ok
                        THEN [res |-> d.res, enqueue |-> FALSE, data |-> NoMsg]
                        ELSE IF alive
                             THEN [res |-> Ok, enqueue |-> TRUE, data |-> d.msg]
                             ELSE [res |-> Err("InboundSendError", "channel closed"),
                                   enqueue |-> FALSE, data |-> NoMsg]
               [] p.resp.tag = "Error" ->
                    [res |-> Err("NymMessageError", p.resp.text), enqueue |-> FALSE,
                     data |-> NoMsg]
               [] OTHER ->
                    [res |-> Err("UnexpectedNymMessage", ""), enqueue |-> FALSE,
                     data |-> NoMsg]

\* check_inbound once ws_stream.next() is ready: ended is the None case.
check_inbound(ended, item, alive) ==
    IF ended
    THEN [res |-> Err("WebsocketStreamReadNone", ""), enqueue |-> FALSE, data |-> NoMsg]
    ELSE IF item.read = "Err"
         THEN [res |-> Err("WebsocketStreamError", "read"), enqueue |-> FALSE,
               data |-> NoMsg]
         ELSE handle_inbound(item, alive)

\* A write_bytes handed the bare payload instead of the message's to_bytes().
write_bytes_unencoded(message) ==
    SendRequest(message.recipient, message.message.message, message.n)

\* write_bytes: the request it builds for one outbound message.
write_bytes(message) ==
    SendRequest(message.recipient, to_bytes(message.message), message.n)

\* A select! that looks at t1 only when t2 has nothing to do.
SelectT1AfterT2(t1Ready, t2Ready) == t1Ready /\ ~t2Ready

\* select! polls t1 and t2 in an order drawn afresh in each iteration and
\* takes the first that is ready: t1 can win whenever it is ready, whether
\* or not t2 is.
SelectT1(t1Ready, t2Ready) == t1Ready

\* A select! that looks at t2 only when t1 is not ready.
SelectT2AfterT1(t2Ready, t1Ready) == t2Ready /\ ~t1Ready

\* Likewise t2 is polled, and goes on, whenever it can, whether or not t1
\* is ready.
SelectT2(t2Ready, t1Ready) == t2Ready

\* A select! whose losing check_outbound outlives the iteration.
DropLoserKeepsFuture(pending, buf) == [t2 |-> pending, sinkBuf |-> buf]

\* A select! whose losing check_outbound takes its request with it.
DropLoserLosesRequest(pending, buf) ==
    [t2 |-> "idle",
     sinkBuf |-> IF pending = "writing" THEN SubSeq(buf, 1, Len(buf) - 1) ELSE buf]

\* The end of an iteration won by `res = t1`: the pinned t2 goes out of
\* scope and is dropped, whatever it was awaiting; what it had handed to
\* the sink is the sink's.
DropLoser(pending, buf) == [t2 |-> "idle", sinkBuf |-> buf]

\* The select! arm `res = t1`: check_inbound resolved.  A check_outbound that
\* was still awaiting its write is dropped; the request it handed to the
\* sink stays in the sink.
InboundArm ==
    /\ loop = "select"
    /\ SelectT1(rx # <<>> \/ rxEnded, t2 = "idle" /\ (outbound # <<>> \/ ~txAlive))
    /\ LET ended == (rx = <<>>)
           item == IF ended THEN WithId(Item("Err", "none", FALSE, NoResp), 0, 0) ELSE Head(rx)
           out == check_inbound(ended, item, rxAlive)
       IN  /\ rx' = IF ended THEN rx ELSE Tail(rx)
           /\ lastBad' = IF out.res.kind \in DecodeErrors THEN item.id ELSE lastBad
           /\ inbound' = IF out.enqueue
                         THEN ChannelSend(inbound, [id |-> item.id, echo |-> item.echo,
                                                   msg |-> out.data])
                         ELSE inbound
           /\ lastIn' = IF out.enqueue THEN item.id ELSE lastIn
           /\ res' = out.res
           /\ loop' = LoopNext(out.res)
    /\ t2' = DropLoser(t2, sinkBuf).t2
    /\ sinkBuf' = DropLoser(t2, sinkBuf).sinkBuf
    /\ UNCHANGED <<initVars, rxEnded, emitted, unasked, sent, lastSent, outVars, rxAlive>>

\* check_outbound polled: outbound_rx.recv() resolves.  With a message, the
\* request goes to the sink and the future awaits the write; with the
\* channel closed and empty, the arm `res = t2` ends the iteration.
OutboundPoll ==
    /\ loop = "select"
    /\ t2 = "idle"
    /\ SelectT2(outbound # <<>> \/ ~txAlive, rx # <<>> \/ rxEnded)
    /\ \/ /\ outbound # <<>>
          /\ LET got == ChannelRecv(outbound)
             IN  /\ outbound' = got.rest
                 /\ sinkBuf' = Append(sinkBuf, write_bytes(got.item))
          /\ t2' = "writing"
          /\ UNCHANGED <<loop, res>>
       \/ /\ outbound = <<>>
          /\ ~txAlive
          /\ res' = Err("RecvError", "")
          /\ loop' = LoopNext(Err("RecvError", ""))
          /\ UNCHANGED <<outbound, sinkBuf, t2>>
    /\ UNCHANGED <<initVars, lastBad, rx, rxEnded, emitted, unasked, sent, lastSent, enq,
                   txAlive, inVars>>

\* The socket takes what the sink holds.  A check_outbound awaiting its
\* write resolves Ok and the arm `res = t2` ends the iteration.
SinkFlush ==
    /\ sinkBuf # <<>>
    /\ loop = "select"
    /\ sent' = sent \o sinkBuf
    /\ lastSent' = sinkBuf[Len(sinkBuf)].n
    /\ sinkBuf' = <<>>
    /\ IF t2 = "writing"
       THEN /\ t2' = "idle"
            /\ res' = Ok
            /\ loop' = LoopNext(Ok)
       ELSE UNCHANGED <<t2, res, loop>>
    /\ UNCHANGED <<initVars, lastBad, rx, rxEnded, emitted, unasked, outVars, inVars>>

\* A check_outbound that puts the message of a failed write back in the
\* channel for another try.
OutboundRequeueOnError(queue, request) ==
    Append(queue, [recipient |-> request.recipient,
                   message |-> parse_message_data(request.message).msg,
                   n |-> request.n])

\* The outbound channel after write_bytes failed: recv() moved the message
\* out and the `?` returns without touching the channel.
OutboundAfterWriteError(queue, request) == queue

\* The awaited write fails: write_bytes returns WebsocketStreamError and the
\* request is gone.
SinkWriteErr ==
    /\ loop = "select"
    /\ t2 = "writing"
    /\ sinkBuf' = SubSeq(sinkBuf, 1, Len(sinkBuf) - 1)
    /\ outbound' = OutboundAfterWriteError(outbound, sinkBuf[Len(sinkBuf)])
    /\ t2' = "idle"
    /\ res' = Err("WebsocketStreamError", "write")
    /\ loop' = LoopNext(Err("WebsocketStreamError", "write"))
    /\ UNCHANGED <<initVars, lastBad, rx, rxEnded, emitted, unasked, sent, lastSent, enq,
                   txAlive, inVars>>

\* ------------------------------------------------------------- environment
Connected == pc \in {"hs_read", "done"}

GatewayEmit ==
    /\ Connected
    /\ ~rxEnded
    /\ unasked < MaxFrames
    /\ \E item \in GatewayItems :
          rx' = Append(rx, WithId(item, emitted + 1, 0))
    /\ emitted' = emitted + 1
    /\ unasked' = unasked + 1
    /\ UNCHANGED <<initVars, loopVars, rxEnded, sent, lastSent, sinkBuf, outVars, inVars>>

GatewayClose ==
    /\ Connected
    /\ ~rxEnded
    /\ rxEnded' = TRUE
    /\ UNCHANGED <<initVars, loopVars, rx, emitted, unasked, sent, lastSent, sinkBuf,
                   outVars, inVars>>

\* The gateway serves the next request: a SelfAddress request is answered
\* with an address; a Send addressed to the address the bridge was given
\* comes back as a Received frame carrying the same bytes.
GatewayServe(addr) ==
    /\ sent # <<>>
    /\ ~rxEnded
    /\ sent' = Tail(sent)
    /\ LET q == Head(sent)
           answer == IF q.tag = "SelfAddress"
                     THEN Resp("SelfAddress", addr, <<>>, "")
                     ELSE Resp("Received", NoAddr, q.message, "")
       IN  IF q.tag = "SelfAddress" \/ q.recipient = recipient
           THEN /\ rx' = Append(rx, WithId(Item("Ok", "Binary", TRUE, answer),
                                           emitted + 1, q.n))
                /\ emitted' = emitted + 1
           ELSE UNCHANGED <<rx, emitted>>
    /\ UNCHANGED <<initVars, loopVars, rxEnded, unasked, lastSent, sinkBuf, outVars, inVars>>

SelfAddr == "addrA"

\* outbound_tx.send(OutboundMessage { message, recipient }), to one of `to`.
CallerSendTo(to) ==
    /\ pc = "done"
    /\ txAlive
    /\ enq < MaxOut
    /\ \E r \in to, m \in Messages :
          outbound' = ChannelSend(outbound, [recipient |-> r, message |-> m, n |-> enq + 1])
    /\ enq' = enq + 1
    /\ UNCHANGED <<initVars, loopVars, sockVars, txAlive, inVars>>

CallerSend == CallerSendTo(Addrs)

\* The loopback test: every message goes to the bridge's own address.
CallerSendSelf == CallerSendTo({recipient})

CallerRecv ==
    /\ pc = "done"
    /\ rxAlive
    /\ inbound # <<>>
    /\ inbound' = ChannelRecv(inbound).rest
    /\ UNCHANGED <<initVars, loopVars, sockVars, outVars, lastIn, rxAlive>>

CallerDropRx ==
    /\ pc = "done"
    /\ rxAlive
    /\ rxAlive' = FALSE
    /\ UNCHANGED <<initVars, loopVars, sockVars, outVars, inbound, lastIn>>

CallerDropTx ==
    /\ pc = "done"
    /\ txAlive
    /\ txAlive' = FALSE
    /\ UNCHANGED <<initVars, loopVars, sockVars, outbound, enq, inVars>>

\* ---------------------------------------------------------- specifications
Next ==
    \/ ConnectOk
    \/ ConnectFail
    \/ HsSendOk
    \/ HsSendFail
    \/ HsRead
    \/ InboundArm
    \/ OutboundPoll
    \/ SinkFlush
    \/ SinkWriteErr
    \/ GatewayEmit
    \/ GatewayClose
    \/ GatewayServe(SelfAddr)
    \/ CallerSend
    \/ CallerRecv
    \/ CallerDropRx
    \/ CallerDropTx

Spec == Init /\ [][Next]_vars

\* The loopback scenario of test_mixnet_poll_inbound_and_outbound: the socket
\* works and stays open, the gateway answers each request (and may send
\* frames of its own between the answers), the caller keeps both endpoints
\* and addresses every message to itself.  The
\* runtime schedules the relay task whenever one of its futures can make
\* progress, and the socket and the gateway do not stall for ever.
NextLoopback ==
    \/ ConnectOk
    \/ HsSendOk
    \/ HsRead
    \/ InboundArm
    \/ OutboundPoll
    \/ SinkFlush
    \/ GatewayServe(SelfAddr)
    \/ GatewayEmit
    \/ CallerSendSelf
    \/ CallerRecv

LoopbackSpec ==
    /\ Init
    /\ [][NextLoopback]_vars
    /\ WF_vars(ConnectOk)
    /\ WF_vars(HsSendOk)
    /\ WF_vars(HsRead)
    /\ WF_vars(InboundArm)
    /\ WF_vars(OutboundPoll)
    /\ WF_vars(SinkFlush)
    /\ WF_vars(GatewayServe(SelfAddr))

\* Frames and messages without end.  A gateway that always has another frame
\* for the bridge, and a caller that always has another message for someone
\* else.  The ghost numbers of both are 0; the model's queues stay within
\* the bounds.
FloodItems ==
    {Item("Ok", "Binary", TRUE, Resp("Received", NoAddr, b, "")) :
        b \in {to_bytes(m) : m \in {x \in Messages : Len(x.message) = MaxLen}}}
    \cup {Item("Ok", "Binary", FALSE, NoResp)}

GatewayFlood ==
    /\ pc = "done"
    /\ ~rxEnded
    /\ Len(rx) < MaxFrames
    /\ \E item \in FloodItems :
          /\ item.wf => Len(inbound) < MaxFrames
          /\ rx' = Append(rx, WithId(item, 0, 0))
    /\ UNCHANGED <<initVars, loopVars, rxEnded, emitted, unasked, sent, lastSent, sinkBuf,
                   outVars, inVars>>

CallerFlood ==
    /\ pc = "done"
    /\ txAlive
    /\ Len(outbound) + Len(sinkBuf) + Len(sent) < MaxOut
    /\ \E r \in Addrs \ {recipient}, m \in {x \in Messages : Len(x.message) = MaxLen} :
          outbound' = ChannelSend(outbound, [recipient |-> r, message |-> m, n |-> 0])
    /\ UNCHANGED <<initVars, loopVars, sockVars, enq, txAlive, inVars>>

\* The relay phase under load: a socket that works and stays open, a caller
\* that keeps both endpoints, sends numbered messages to itself and any
\* number of others elsewhere.  An arm of the select! that stays ready is
\* taken in the end (the poll order is random), the socket takes what the
\* sink holds and the gateway serves what it was sent.
NextRelay ==
    \/ ConnectOk
    \/ HsSendOk
    \/ HsRead
    \/ InboundArm
    \/ OutboundPoll
    \/ SinkFlush
    \/ GatewayServe(SelfAddr)
    \/ GatewayFlood
    \/ CallerSendSelf
    \/ CallerFlood
    \/ CallerRecv

RelaySpec ==
    /\ Init
    /\ [][NextRelay]_vars
    /\ WF_vars(ConnectOk)
    /\ WF_vars(HsSendOk)
    /\ WF_vars(HsRead)
    /\ WF_vars(InboundArm)
    /\ WF_vars(OutboundPoll)
    /\ WF_vars(SinkFlush)
    /\ WF_vars(GatewayServe(SelfAddr))

\* The relay phase with a caller that sends some messages to itself, may
\* then drop the outbound sender, and keeps the inbound receiver, while the
\* gateway keeps sending frames.  Fairness as in RelaySpec.
NextClosedOutbound ==
    \/ ConnectOk
    \/ HsSendOk
    \/ HsRead
    \/ InboundArm
    \/ OutboundPoll
    \/ SinkFlush
    \/ GatewayServe(SelfAddr)
    \/ GatewayFlood
    \/ CallerSendSelf
    \/ CallerRecv
    \/ CallerDropTx

ClosedOutboundSpec ==
    /\ Init
    /\ [][NextClosedOutbound]_vars
    /\ WF_vars(ConnectOk)
    /\ WF_vars(HsSendOk)
    /\ WF_vars(HsRead)
    /\ WF_vars(InboundArm)
    /\ WF_vars(OutboundPoll)
    /\ WF_vars(SinkFlush)
    /\ WF_vars(GatewayServe(SelfAddr))

\* initialize_mixnet up to its return, on its own: connect_async and
\* get_self_address against a gateway that may send anything and may close.
\* The runtime polls the awaited ws_stream.next() whenever the stream has an
\* item or has ended.
NextHandshake ==
    \/ ConnectOk
    \/ ConnectFail
    \/ HsSendOk
    \/ HsSendFail
    \/ HsRead
    \/ GatewayEmit
    \/ GatewayClose
    \/ GatewayServe(SelfAddr)

HandshakeSpec ==
    /\ Init
    /\ [][NextHandshake]_vars
    /\ WF_vars(HsRead)

\* ------------------------------------------------------------------ claims
\* A frame handle_inbound forwards: a Text or Binary frame holding a Received
\* response whose bytes decode to a message.
IsGoodReceived(f) ==
    /\ f.read = "Ok"
    /\ f.kind \in {"Text", "Binary"}
    /\ f.wf
    /\ f.resp.tag = "Received"
    /\ parse_message_data(f.resp.message).res = Ok

\* The channel item such a frame becomes.
Decoded(f) == [id |-> f.id, echo |-> f.echo, msg |-> parse_message_data(f.resp.message).msg]

IsResponse(f) == f.read = "Ok" /\ f.kind \in {"Text", "Binary"} /\ f.wf

\* A response the handshake has to skip: well formed, neither SelfAddress
\* nor Error.
IsSkippable(f) == IsResponse(f) /\ f.resp.tag \notin {"SelfAddress", "Error"}

IsSelfAddress(f) == IsResponse(f) /\ f.resp.tag = "SelfAddress"

\* C1: nothing is enqueued to the inbound channel while the self address is
\* unknown, and no frame the handshake read (the ids 1..hsCount) is ever
\* enqueued, then or later.
C1_NoDeliveryBeforeSelfAddress ==
    /\ recipient = NoAddr => (inbound = <<>> /\ lastIn = 0)
    /\ \A i \in DOMAIN inbound : inbound[i].id > hsCount
    /\ lastIn # 0 => lastIn > hsCount

\* The handshake skipped a frame, succeeded, and the relay has since
\* delivered a later frame.
C1_Witness ==
    /\ pc = "done"
    /\ hsCount >= 2
    /\ inbound # <<>>

\* C2: while the handshake reads, every well-formed response that is neither
\* SelfAddress nor Error is consumed and the handshake keeps reading; a
\* SelfAddress(addr) response, however many were skipped before it, makes
\* initialize_mixnet succeed with exactly addr.
C2_HandshakeSkipTolerance ==
    [][(pc = "hs_read" /\ rx # <<>> /\ hsCount' # hsCount) =>
          /\ rx' = Tail(rx)
          /\ IsSkippable(Head(rx)) =>
                (pc' = "hs_read" /\ initResult' = NoResult /\ recipient' = NoAddr)
          /\ IsSelfAddress(Head(rx)) =>
                (pc' = "done" /\ initResult' = Ok /\ recipient' = Head(rx).resp.addr
                 /\ loop' = "select")]_vars

\* The handshake succeeded on its second or later frame.
C2_Witness ==
    /\ pc = "done"
    /\ hsCount >= 2
    /\ recipient \in Addrs

\* C3: in the loopback scenario, under fair scheduling, every outbound
\* message enqueued for the bridge's own address eventually shows up on the
\* inbound channel as the echo of that very message, with the same payload;
\* this for every payload of the bounded set, the empty one included.
C3_Loopback ==
    \A n \in 1..MaxOut, p \in Payloads :
        (\E i \in DOMAIN outbound :
            /\ outbound[i].n = n
            /\ outbound[i].recipient = recipient
            /\ outbound[i].message.message = p)
        ~> (\E i \in DOMAIN inbound :
               /\ inbound[i].echo = n
               /\ inbound[i].msg.message = p)

\* An empty payload and a longest one have both come back.
C3_Witness ==
    /\ \E i \in DOMAIN inbound : inbound[i].echo >= 1 /\ inbound[i].msg.message = <<>>
    /\ \E i \in DOMAIN inbound : inbound[i].echo >= 1 /\ Len(inbound[i].msg.message) = MaxLen

\* C4: once the caller has dropped the inbound receiver and every outbound
\* sender, the iteration in which check_outbound reports the closed channel
\* is the loop's last: the task stops.
C4_ClosureStopsLoop ==
    [][(/\ ~rxAlive
        /\ ~txAlive
        /\ loop = "select"
        /\ res' # res
        /\ res'.kind = "RecvError") => loop' = "exited"]_vars

\* C5: once check_inbound has reported the end of the stream, the task has
\* stopped.
C5_StreamEndStopsLoop ==
    res.kind = "WebsocketStreamReadNone" => loop = "exited"

\* C6: in the relay phase a frame that does not decode is dropped and the
\* loop stays ready for the next frame; every well-formed Received frame
\* the loop reads while an inbound receiver exists is enqueued, whatever
\* was read and dropped before it.
C6_MalformedFrameIsolation ==
    /\ [](res.kind \in DecodeErrors /\ loop # "none" /\ (rx # <<>> \/ rxEnded)
            => ENABLED InboundArm)
    /\ [][(/\ loop = "select"
           /\ rx # <<>>
           /\ rx' = Tail(rx)
           /\ res'.kind \in DecodeErrors) => inbound' = inbound]_vars
    /\ [][(/\ loop = "select"
           /\ rx # <<>>
           /\ rx' = Tail(rx)
           /\ rxAlive
           /\ IsGoodReceived(Head(rx)))
              => inbound' = Append(inbound, Decoded(Head(rx)))]_vars

\* A frame was dropped on a decode error and a frame that arrived after it
\* has been enqueued.
C6_Witness ==
    /\ lastBad > 0
    /\ lastIn > lastBad
    /\ \E i \in DOMAIN inbound : inbound[i].id > lastBad

PerMessageErrors ==
    {"NymMessageError", "InvalidMessageBytes", "UnexpectedNymMessage",
     "UnknownNymMessage", "WebsocketStreamError"}

\* C7: an iteration that ends with a per-message error (malformed envelope,
\* malformed payload, Error response, unexpected variant, unknown frame
\* kind, socket read or write error) leaves the task in its loop, at the top
\* of a new iteration whose check_outbound has not started; and while its
\* last result is such an error the task is in its loop, able to take a
\* waiting frame and, unless a write is under way, a waiting message.
C7_LoopSurvivesMessageErrors ==
    /\ [](loop # "none" /\ res.kind \in PerMessageErrors =>
            /\ loop = "select"
            /\ (rx # <<>> \/ rxEnded) => ENABLED InboundArm
            /\ (t2 = "idle" /\ (outbound # <<>> \/ ~txAlive)) => ENABLED OutboundPoll)
    /\ [][(loop = "select" /\ res' # res /\ res'.kind \in PerMessageErrors)
             => (loop' = "select" /\ t2' = "idle")]_vars

\* After a failed write the next iteration has already taken the next
\* message and is writing it.
C7_Witness ==
    /\ res = Err("WebsocketStreamError", "write")
    /\ loop = "select"
    /\ t2 = "writing"

\* The enqueue numbers of the Send requests of a sequence of requests.
SendNumbers(reqs) ==
    LET sends == SelectSeq(reqs, LAMBDA q : q.tag = "Send")
    IN  [i \in DOMAIN sends |-> sends[i].n]

StrictlyIncreasing(ns) == \A i, j \in DOMAIN ns : i < j => ns[i] < ns[j]

\* C8: Send requests reach the socket in the order their messages were
\* enqueued: what is on the socket or in the sink is in enqueue order, what
\* the sink still holds was enqueued after everything written before, what
\* waits in the channel after that, and each write is of a later message
\* than the last write.
C8_OutboundOrder ==
    /\ [](/\ StrictlyIncreasing(SendNumbers(sent \o sinkBuf))
          /\ StrictlyIncreasing([i \in DOMAIN outbound |-> outbound[i].n])
          /\ \A i \in DOMAIN sent : sent[i].n <= lastSent
          /\ \A i \in DOMAIN sinkBuf : sinkBuf[i].n > lastSent
          /\ \A i \in DOMAIN outbound, j \in DOMAIN sinkBuf : outbound[i].n > sinkBuf[j].n
          /\ \A i \in DOMAIN outbound : outbound[i].n > lastSent)
    /\ [][lastSent' >= lastSent]_vars

\* Two Send requests are on the socket, the second written after a frame
\* was read in between.
C8_Witness ==
    /\ Len(SendNumbers(sent)) >= 2
    /\ lastIn > 0 \/ lastBad > 0

\* C9: inbound messages are enqueued in the order their frames arrived: the
\* frames waiting on the socket are in arrival order and newer than any
\* enqueued, the channel holds its items in arrival order, and each enqueue
\* is of a later frame than the last.
C9_InboundOrder ==
    /\ [](/\ StrictlyIncreasing([i \in DOMAIN rx |-> rx[i].id])
          /\ StrictlyIncreasing([i \in DOMAIN inbound |-> inbound[i].id])
          /\ \A i \in DOMAIN inbound : inbound[i].id <= lastIn
          /\ \A i \in DOMAIN rx : rx[i].id > lastIn)
    /\ [][lastIn' >= lastIn]_vars
    /\ [][inbound' # inbound /\ Len(inbound') > Len(inbound) =>
             /\ inbound'[Len(inbound')].id = lastIn'
             /\ SubSeq(inbound', 1, Len(inbound)) = inbound]_vars

\* Two messages wait in the inbound channel while an outbound write is
\* under way.
C9_Witness ==
    /\ Len(inbound) >= 2
    /\ t2 = "writing"

\* C10: every item enqueued to the inbound channel is the decoded payload of
\* a well-formed Received response the relay loop read from the socket just
\* then; nothing else is ever enqueued, and every item is a message.
C10_OnlyDecodedPayloads ==
    /\ [](\A i \in DOMAIN inbound : inbound[i].msg \in Messages)
    /\ [][inbound' # inbound /\ Len(inbound') >= Len(inbound) =>
             /\ loop = "select"
             /\ recipient # NoAddr
             /\ rx # <<>>
             /\ IsGoodReceived(Head(rx))
             /\ rx' = Tail(rx)
             /\ inbound' = Append(inbound, Decoded(Head(rx)))]_vars
    /\ [][(loop = "select" /\ rx # <<>> /\ rx' = Tail(rx) /\ ~IsGoodReceived(Head(rx)))
             => (inbound' = inbound /\ res' # Ok)]_vars

\* The loop has just reported an Error response and the channel holds a
\* message from an earlier frame.
C10_Witness ==
    /\ res = Err("NymMessageError", "gw-error")
    /\ inbound # <<>>

\* A SelfAddress response still waits on the socket.
SelfAddressWaits == \E i \in DOMAIN rx : IsSelfAddress(rx[i])

\* C12: when the handshake reads an Error(text) response, having read only
\* skipped responses before it, initialize_mixnet fails with
\* NymMessageError(text); a failed initialize_mixnet stays failed with the
\* same error and reads no further frame, so a SelfAddress response behind
\* the Error changes nothing.
C12_HandshakeErrorResponse ==
    /\ [][(/\ pc = "hs_read"
           /\ rx # <<>>
           /\ hsCount' # hsCount
           /\ IsResponse(Head(rx))
           /\ Head(rx).resp.tag = "Error")
             => /\ pc' = "failed"
                /\ initResult' = Err("NymMessageError", Head(rx).resp.text)
                /\ recipient' = NoAddr]_vars
    /\ [][pc = "failed" =>
             /\ pc' = "failed"
             /\ initResult' = initResult
             /\ recipient' = NoAddr
             /\ hsCount' = hsCount]_vars

\* The handshake skipped a response, then read the Error, and a SelfAddress
\* response waits behind it.
C12_Witness ==
    /\ pc = "failed"
    /\ initResult = Err("NymMessageError", "gw-error")
    /\ hsCount >= 2
    /\ SelfAddressWaits

\* C13: when the stream ends while the handshake reads and no SelfAddress
\* response is left on it, the handshake eventually fails (it neither waits
\* for ever nor succeeds), and the step that meets the end of the stream
\* fails with RecvError.
C13_StreamEndFailsHandshake ==
    /\ [][(pc = "hs_read" /\ rx = <<>> /\ rxEnded /\ pc' # pc)
             => (pc' = "failed" /\ initResult' = Err("RecvError", "")
                 /\ recipient' = NoAddr)]_vars
    /\ [][(pc = "hs_read" /\ rxEnded /\ ~SelfAddressWaits) => pc' # "done"]_vars
    /\ (pc = "hs_read" /\ rxEnded /\ ~SelfAddressWaits) ~> (pc = "failed")

\* The handshake skipped a response and then met the end of the stream.
C13_Witness ==
    /\ pc = "failed"
    /\ initResult = Err("RecvError", "")
    /\ hsCount >= 1
    /\ rxEnded

\* C14: initialize_mixnet has failed exactly when it returned an error, and
\* then, for ever: no relay task exists and none has run an iteration, no
\* address was returned, the caller has no endpoint (nothing was ever
\* enqueued to the outbound channel), no Send request was handed to the sink
\* or written to the socket, and nothing was enqueued to the inbound channel.
C14_FailedInitNeverStarts ==
    /\ [](pc = "failed" <=> initResult \notin {NoResult, Ok})
    /\ [](pc = "failed" =>
            /\ loop = "none"
            /\ t2 = "idle"
            /\ res = NoResult
            /\ recipient = NoAddr
            /\ outbound = <<>>
            /\ enq = 0
            /\ sinkBuf = <<>>
            /\ lastSent = 0
            /\ \A i \in DOMAIN sent : sent[i].tag # "Send"
            /\ inbound = <<>>
            /\ lastIn = 0)
    /\ [][pc = "failed" => (pc' = "failed" /\ loop' = "none")]_vars

\* The handshake failed on a socket read error after the gateway had served
\* the SelfAddress request, with frames still waiting on the socket.
C14_Witness ==
    /\ pc = "failed"
    /\ initResult = Err("WebsocketStreamError", "read")
    /\ sent = <<>>
    /\ rx # <<>>

\* C19: when the handshake reads an item that is not a well-formed response
\* (a socket read error, a frame that is neither Text nor Binary, a frame
\* that does not deserialize), initialize_mixnet fails at once with the
\* error of that item, whatever waits behind it on the socket.
C19_HandshakeStrictOnBadFrames ==
    [][(pc = "hs_read" /\ rx # <<>> /\ hsCount' # hsCount /\ ~IsResponse(Head(rx)))
         => /\ pc' = "failed"
            /\ recipient' = NoAddr
            /\ loop' = "none"
            /\ initResult' =
                  IF Head(rx).read = "Err"
                  THEN Err("WebsocketStreamError", "read")
                  ELSE IF Head(rx).kind \notin {"Text", "Binary"}
                       THEN Err("UnknownNymMessage", "")
                       ELSE Err("NymMessageError", "deserialize")]_vars

\* The handshake skipped a response and failed on a Ping frame with a
\* SelfAddress response waiting behind it.
C19_Witness ==
    /\ pc = "failed"
    /\ initResult = Err("UnknownNymMessage", "")
    /\ hsCount >= 2
    /\ SelfAddressWaits

\* C17: with the inbound receiver dropped, the relay task still takes a
\* waiting frame (it does not block); reading a well-formed Received frame
\* whose payload decodes then ends the iteration with InboundSendError, the
\* frame is consumed, nothing is enqueued, and the task is at the top of its
\* loop again; InboundSendError is reported in no other situation.
C17_InboundConsumerGone ==
    /\ [](~rxAlive /\ loop = "select" /\ rx # <<>> => ENABLED InboundArm)
    /\ [](res.kind = "InboundSendError" => (~rxAlive /\ loop = "select"))
    /\ [][(/\ loop = "select"
           /\ rx # <<>>
           /\ rx' = Tail(rx)
           /\ ~rxAlive
           /\ IsGoodReceived(Head(rx)))
             => /\ res' = Err("InboundSendError", "channel closed")
                /\ inbound' = inbound
                /\ lastIn' = lastIn
                /\ loop' = "select"
                /\ t2' = "idle"]_vars

\* The send to the dropped receiver failed, and the next iteration is
\* already writing an outbound message.
C17_Witness ==
    /\ res.kind = "InboundSendError"
    /\ ~rxAlive
    /\ t2 = "writing"

\* The result write_bytes returns when the sink's send fails.
WriteError == Err("WebsocketStreamError", "write")

\* A sequence without its last item.
Front(q) == SubSeq(q, 1, Len(q) - 1)

\* C15: the socket has one user at a time per half.  A relay task exists
\* only once initialize_mixnet has returned, and while the handshake owns
\* the socket no relay write exists.  An item leaves the read half only in
\* a handshake read with no task spawned, or in the task's inbound arm,
\* which touches nothing of the write half and ends with no write in flight
\* (the one check_outbound of the iteration is gone before the next is
\* made).  A request enters or leaves the write half only in the
\* handshake's send or in the task's outbound path, which leaves the read
\* half and the inbound channel alone.  A write in flight is the task's,
\* with its request in the sink.  What the caller does changes no part of
\* the socket.
C15_ExclusiveOwnership ==
    /\ [](loop # "none" => pc = "done")
    /\ [](pc # "done" => (t2 = "idle" /\ sinkBuf = <<>>))
    /\ [](t2 = "writing" => (loop = "select" /\ sinkBuf # <<>>))
    /\ [][(rx # <<>> /\ rx' = Tail(rx)) =>
             \/ pc = "hs_read" /\ loop = "none"
             \/ /\ pc = "done"
                /\ loop = "select"
                /\ t2' = "idle"
                /\ UNCHANGED <<sinkBuf, sent, lastSent, outbound>>]_vars
    /\ [][(sinkBuf' # sinkBuf \/ Len(sent') > Len(sent)) =>
             /\ UNCHANGED <<rx, inbound, lastIn>>
             /\ \/ pc = "hs_send" /\ loop = "none"
                \/ pc = "done" /\ loop = "select"]_vars
    /\ [][(enq' # enq \/ rxAlive' # rxAlive \/ txAlive' # txAlive
             \/ Len(inbound') < Len(inbound))
             => UNCHANGED <<rx, rxEnded, sent, lastSent, sinkBuf, t2, loop>>]_vars

\* A write is in flight, a frame waits on the read half, and the sink holds
\* the request of an earlier iteration as well.
C15_Witness ==
    /\ loop = "select"
    /\ t2 = "writing"
    /\ rx # <<>>
    /\ Len(sinkBuf) >= 2

\* C16: after a failed write the request that was being written is neither
\* in the sink nor on the socket, the outbound channel is as it was, the
\* iteration ends with the write error and the task is at the top of its
\* loop.  Nothing enters the outbound channel but a fresh enqueue of the
\* caller's, and nothing enters the sink but the head of the channel, so
\* the dropped message is not tried again; and at the top of the loop a
\* waiting message can always be dequeued.
C16_WriteFailureIsolated ==
    /\ [](loop = "select" /\ t2 = "idle" /\ outbound # <<>> => ENABLED OutboundPoll)
    /\ [][(t2 = "writing" /\ res' = WriteError /\ sinkBuf' # sinkBuf) =>
             /\ \A i \in DOMAIN sinkBuf' : sinkBuf'[i].n # sinkBuf[Len(sinkBuf)].n
             /\ UNCHANGED <<sent, lastSent, outbound, enq>>
             /\ loop' = "select"
             /\ t2' = "idle"]_vars
    /\ [][\A i \in DOMAIN outbound' :
             \/ \E j \in DOMAIN outbound : outbound[j] = outbound'[i]
             \/ outbound'[i].n = enq + 1 /\ enq' = enq + 1]_vars
    /\ [][\A i \in DOMAIN sinkBuf' :
             \/ \E j \in DOMAIN sinkBuf : sinkBuf[j] = sinkBuf'[i]
             \/ /\ outbound # <<>>
                /\ sinkBuf'[i] = write_bytes(Head(outbound))
                /\ outbound' = Tail(outbound)]_vars

\* The first message's write failed (it is neither written nor in the
\* sink) and the second message is being written.
C16_Witness ==
    /\ res = WriteError
    /\ lastSent = 0
    /\ t2 = "writing"
    /\ Len(sinkBuf) = 1
    /\ sinkBuf[1].n = 2

\* C18: a message leaves the outbound channel only as the request
\* write_bytes builds of it, handed to the sink in the same step; a request
\* leaves the sink only to the socket, or as the request being written when
\* the iteration ends with the write error; and when the inbound arm wins
\* while a write is pending, the request stays in the sink.
C18_NoSilentLoss ==
    /\ [][Len(outbound') < Len(outbound) =>
             /\ outbound' = Tail(outbound)
             /\ sinkBuf' = Append(sinkBuf, write_bytes(Head(outbound)))]_vars
    /\ [][sinkBuf' # sinkBuf =>
             \/ Len(sinkBuf') = Len(sinkBuf) + 1 /\ Front(sinkBuf') = sinkBuf
             \/ sinkBuf' = <<>> /\ sent' = sent \o sinkBuf
             \/ t2 = "writing" /\ sinkBuf' = Front(sinkBuf) /\ res' = WriteError]_vars
    /\ [][(t2 = "writing" /\ t2' = "idle" /\ res' # Ok /\ res' # WriteError)
             => UNCHANGED <<sinkBuf, sent, outbound>>]_vars

\* The inbound arm won while a write was pending: no check_outbound is
\* running and the sink still holds the request.
C18_Witness ==
    /\ loop = "select"
    /\ t2 = "idle"
    /\ sinkBuf # <<>>
    /\ lastIn > 0

\* The frame numbered k waits on the socket.
FramePending(k) == \E i \in DOMAIN rx : rx[i].id = k

\* The message numbered n waits in the outbound channel.
MessagePending(n) == \E i \in DOMAIN outbound : outbound[i].n = n

\* The message numbered n is neither in the channel nor in the sink.
MessageGone(n) ==
    /\ \A i \in DOMAIN outbound : outbound[i].n # n
    /\ \A i \in DOMAIN sinkBuf : sinkBuf[i].n # n

\* C11: under load and fair scheduling, every numbered frame waiting on the
\* socket while the task runs (number 1 is the handshake's, the echoes have
\* 2 and up) is eventually taken by the inbound arm, and
\* every numbered message enqueued is eventually dequeued and written (a
\* request leaves the sink only to the socket), however many other frames
\* and messages keep coming and also when none comes; the inbound arm can
\* be taken whenever a frame waits, and a message can be dequeued whenever
\* no write is under way, whatever the state of the other direction.
C11_NoStarvation ==
    /\ \A k \in 2..(MaxOut + 1) :
          (loop = "select" /\ FramePending(k)) ~> ~FramePending(k)
    /\ \A n \in 1..MaxOut : MessagePending(n) ~> MessageGone(n)
    /\ [][(sinkBuf' # sinkBuf /\ Len(sinkBuf') <= Len(sinkBuf))
             => (sinkBuf' = <<>> /\ sent' = sent \o sinkBuf)]_vars
    /\ [](loop = "select" /\ rx # <<>> => ENABLED InboundArm)
    /\ [](loop = "select" /\ t2 = "idle" /\ outbound # <<>> => ENABLED OutboundPoll)

\* The echo of a numbered message has been delivered while unnumbered
\* frames and messages wait on both sides.
C11_Witness ==
    /\ \E i \in DOMAIN inbound : inbound[i].id >= 2
    /\ \E i \in DOMAIN rx : rx[i].id = 0
    /\ \E i \in DOMAIN outbound : outbound[i].n = 0

\* C20: once the caller has dropped the outbound sender, keeping the
\* inbound receiver, every numbered well-formed Received frame that waits on
\* the socket is eventually enqueued to the inbound channel, although
\* check_outbound can end every iteration with RecvError; and whichever
\* well-formed Received frame the task reads then is enqueued.
C20_ClosedOutboundNoWedge ==
    /\ \A k \in 2..(MaxOut + 1) :
          (/\ ~txAlive
           /\ loop = "select"
           /\ \E i \in DOMAIN rx : rx[i].id = k /\ IsGoodReceived(rx[i]))
          ~> (\E i \in DOMAIN inbound : inbound[i].id = k)
    /\ [](~txAlive /\ outbound = <<>> /\ t2 = "idle" /\ loop = "select"
            => ENABLED OutboundPoll)
    /\ [][(/\ ~txAlive
           /\ loop = "select"
           /\ rx # <<>>
           /\ rx' = Tail(rx)
           /\ IsGoodReceived(Head(rx)))
             => inbound' = Append(inbound, Decoded(Head(rx)))]_vars

\* With the outbound sender dropped the task has just reported RecvError,
\* the echo of a message is in the inbound channel and a frame waits.
C20_Witness ==
    /\ ~txAlive
    /\ res = Err("RecvError", "")
    /\ \E i \in DOMAIN inbound : inbound[i].id >= 2
    /\ rx # <<>>

====
